---- MODULE Spec2Model ----
(***************************************************************************)
(* Model of cltk.tokenize.word (WordTokenizer and the Base*WordTokenizer   *)
(* classes) and cltk.tokenize.utils (BaseSentenceTokenizerTrainer).        *)
(*                                                                         *)
(* A text is a sequence of one-character strings; a token is a non-empty   *)
(* text.  Python's None is the string "None".                              *)
(***************************************************************************)
EXTENDS Integers, Sequences, FiniteSets

VARIABLES
    live,            \* live[d]: the name d is bound to a WordTokenizer object
    arg,             \* arg[d]: the language the constructor was called with
    language,        \* language[d]: the object's self.language
    log,             \* the notices sent to logger.warning / print so far
    last,            \* the last call on a WordTokenizer and its outcome
    rx_patterns,     \* self.patterns of the BaseRegexWordTokenizer
    rx_last,         \* the last BaseRegexWordTokenizer.tokenize call
    sent_end_chars,  \* PunktLanguageVars.sent_end_chars, a class attribute
    trainer,         \* the attributes of the current BaseSentenceTokenizerTrainer
    tr_last          \* the last train_sentence_tokenizer call and its outcome

vars == <<live, arg, language, log, last, rx_patterns, rx_last,
          sent_end_chars, trainer, tr_last>>

dispatchVars == <<live, arg, language, log, last>>
regexVars    == <<rx_patterns, rx_last>>
trainVars    == <<sent_end_chars, trainer, tr_last>>

(***************************************************************************)
(* Bounds                                                                  *)
(***************************************************************************)
MaxLen    == 2     \* longest input text, in characters
MaxRules  == 2     \* longest PatternSet, in rules
MaxPunct  == 1     \* longest punctuation / strict_punctuation list
MaxCorpus == 2     \* longest training corpus, in tokens

Alphabet == {"a", " ", ".", "-"}

None == "None"

SeqsUpTo(S, n) == UNION {[1..k -> S] : k \in 0..n}

Texts == SeqsUpTo(Alphabet, MaxLen)

Range(s) == {s[i] : i \in 1..Len(s)}

(***************************************************************************)
(* Python string primitives                                                *)
(***************************************************************************)
IsSpace(c) == c = " "

RECURSIVE SplitFrom(_, _, _)
\* str.split() from position i on, cur being the run of non-whitespace
\* characters read so far
SplitFrom(text, i, cur) ==
    IF i > Len(text)
    THEN IF cur = <<>> THEN <<>> ELSE <<cur>>
    ELSE IF IsSpace(text[i])
         THEN (IF cur = <<>> THEN <<>> ELSE <<cur>>) \o SplitFrom(text, i + 1, <<>>)
         ELSE SplitFrom(text, i + 1, Append(cur, text[i]))

split(text) == SplitFrom(text, 1, <<>>)

MatchesAt(pat, text, i) ==
    /\ i + Len(pat) - 1 <= Len(text)
    /\ \A k \in 1..Len(pat) : text[i + k - 1] = pat[k]

(***************************************************************************)
(* re.sub for the rule shapes the tokenizer patterns use.  A pattern is a  *)
(* record:                                                                 *)
(*   [kind |-> "lit",    pat |-> s]   the literal non-empty string s       *)
(*   [kind |-> "before", set |-> S]   (?<=.)(?=[S])                        *)
(*   [kind |-> "after",  set |-> S]   (?<=[S])(?=.)                        *)
(*   [kind |-> "ws"]                  \s+                                  *)
(*   [kind |-> "start"]               ^                                    *)
(***************************************************************************)
RECURSIVE SubLit(_, _, _, _)
SubLit(pat, repl, text, i) ==
    IF i > Len(text) THEN <<>>
    ELSE IF MatchesAt(pat, text, i)
         THEN repl \o SubLit(pat, repl, text, i + Len(pat))
         ELSE <<text[i]>> \o SubLit(pat, repl, text, i + 1)

RECURSIVE SubBefore(_, _, _, _)
SubBefore(set, repl, text, i) ==
    IF i > Len(text) THEN <<>>
    ELSE (IF i > 1 /\ text[i] \in set THEN repl ELSE <<>>)
         \o <<text[i]>> \o SubBefore(set, repl, text, i + 1)

RECURSIVE SubAfter(_, _, _, _)
SubAfter(set, repl, text, i) ==
    IF i > Len(text) THEN <<>>
    ELSE <<text[i]>>
         \o (IF i < Len(text) /\ text[i] \in set THEN repl ELSE <<>>)
         \o SubAfter(set, repl, text, i + 1)

RECURSIVE SubWs(_, _, _)
SubWs(repl, text, i) ==
    IF i > Len(text) THEN <<>>
    ELSE IF IsSpace(text[i])
         THEN (IF i > 1 /\ IsSpace(text[i - 1]) THEN <<>> ELSE repl)
              \o SubWs(repl, text, i + 1)
         ELSE <<text[i]>> \o SubWs(repl, text, i + 1)

re_sub(pattern, repl, text) ==
    CASE pattern.kind = "lit"    -> SubLit(pattern.pat, repl, text, 1)
      [] pattern.kind = "before" -> SubBefore(pattern.set, repl, text, 1)
      [] pattern.kind = "after"  -> SubAfter(pattern.set, repl, text, 1)
      [] pattern.kind = "ws"     -> SubWs(repl, text, 1)
      [] pattern.kind = "start"  -> repl \o text

(***************************************************************************)
(* BaseRegexWordTokenizer                                                  *)
(***************************************************************************)
RECURSIVE ApplyPatterns(_, _)
\* for pattern in self.patterns: text = re.sub(pattern[0], pattern[1], text)
ApplyPatterns(patterns, text) ==
    IF patterns = <<>> THEN text
    ELSE ApplyPatterns(Tail(patterns),
                       re_sub(Head(patterns)[1], Head(patterns)[2], text))

\* A slip of the loop: the rules taken last to first
RECURSIVE ApplyPatternsReversed(_, _)
ApplyPatternsReversed(patterns, text) ==
    IF patterns = <<>> THEN text
    ELSE re_sub(Head(patterns)[1], Head(patterns)[2],
                ApplyPatternsReversed(Tail(patterns), text))

RegexTokenizeReversed(patterns, text) == split(ApplyPatternsReversed(patterns, text))

RegexTokenize(patterns, text) == split(ApplyPatterns(patterns, text))

(***************************************************************************)
(* PatternSets the regex tokenizer is exercised with.  A rule is the pair  *)
(* <<pattern, replacement>>, as in the Python lists of tuples.             *)
(***************************************************************************)
Lit(s)    == [kind |-> "lit",    pat |-> s,    set |-> {}]
Before(S) == [kind |-> "before", pat |-> <<>>, set |-> S]
After(S)  == [kind |-> "after",  pat |-> <<>>, set |-> S]
Ws        == [kind |-> "ws",     pat |-> <<>>, set |-> {}]
Start     == [kind |-> "start",  pat |-> <<>>, set |-> {}]

RulePool ==
    { <<Lit(<<"-">>), <<" ", "-", " ">>>>,      \* (r'-', r' - ')
      <<Before({".", "-"}), <<" ">>>>,          \* (r'(?<=.)(?=[.-])', ' ')
      <<Ws, <<" ">>>>,                          \* (r'\s+', ' ')
      <<Lit(<<"a">>), <<>>>>,                   \* (r'a', '')
      <<Start, <<"a">>>> }                      \* (r'^', 'a')

PatternSets == SeqsUpTo(RulePool, MaxRules)

NoCall == [called |-> FALSE, text |-> <<>>, out |-> <<>>]

RegexInit ==
    /\ rx_patterns \in PatternSets
    /\ rx_last = NoCall

\* BaseRegexWordTokenizer(language, patterns)
BaseRegexWordTokenizerInit(patterns) ==
    /\ rx_patterns' = patterns
    /\ rx_last' = NoCall
    /\ UNCHANGED <<dispatchVars, trainVars>>

\* BaseRegexWordTokenizer.tokenize(text)
BaseRegexWordTokenizerTokenize(text) ==
    /\ rx_last' = [called |-> TRUE, text |-> text,
                   out |-> RegexTokenize(rx_patterns, text)]
    /\ UNCHANGED <<rx_patterns, dispatchVars, trainVars>>

RegexNext ==
    \/ \E p \in PatternSets : BaseRegexWordTokenizerInit(p)
    \/ \E t \in Texts : BaseRegexWordTokenizerTokenize(t)

(***************************************************************************)
(* What claim C7 compares the regex tokenizer with: the rules folded from  *)
(* the last one back, and the maximal runs of non-whitespace characters.   *)
(***************************************************************************)
Front(s) == SubSeq(s, 1, Len(s) - 1)

RECURSIVE Fold(_, _)
Fold(patterns, text) ==
    IF patterns = <<>> THEN text
    ELSE re_sub(patterns[Len(patterns)][1], patterns[Len(patterns)][2],
                Fold(Front(patterns), text))

RunStarts(s) ==
    {i \in 1..Len(s) : ~IsSpace(s[i]) /\ (i = 1 \/ IsSpace(s[i - 1]))}

RunEnd(s, i) ==
    CHOOSE j \in i..Len(s) :
        /\ \A k \in i..j : ~IsSpace(s[k])
        /\ (j = Len(s) \/ IsSpace(s[j + 1]))

Kth(S, k) == CHOOSE x \in S : Cardinality({y \in S : y < x}) = k - 1

Runs(s) ==
    [k \in 1..Cardinality(RunStarts(s)) |->
        SubSeq(s, Kth(RunStarts(s), k), RunEnd(s, Kth(RunStarts(s), k)))]

Blank(s) == \A i \in 1..Len(s) : IsSpace(s[i])

WellFormed(tokens) ==
    \A k \in 1..Len(tokens) :
        /\ tokens[k] # <<>>
        /\ \A i \in 1..Len(tokens[k]) : ~IsSpace(tokens[k][i])

\* A rule that cannot turn a blank text into a text with a token: it needs a
\* non-whitespace character to match, or it writes whitespace only
NeedsNonSpace(pattern) ==
    \/ pattern.kind = "lit" /\ \E i \in 1..Len(pattern.pat) : ~IsSpace(pattern.pat[i])
    \/ pattern.kind \in {"before", "after"} /\ \A c \in pattern.set : ~IsSpace(c)

Inert(patterns) ==
    \A k \in 1..Len(patterns) : NeedsNonSpace(patterns[k][1]) \/ Blank(patterns[k][2])

C7_FoldThenSplit ==
    rx_last.called =>
        /\ rx_last.out = Runs(Fold(rx_patterns, rx_last.text))
        /\ WellFormed(rx_last.out)

\* C7 (as amended): tokenize(text) is the PatternSet folded over the text in
\* list order, each rule replacing all of its matches in the output of the
\* rule before it, split on runs of whitespace; every token is non-empty and
\* holds no whitespace, the tokens are in left-to-right order, and an empty
\* or whitespace-only text yields the empty sequence for every PatternSet
\* whose rules each need a non-whitespace character to match or write
\* whitespace only.
C7_RegexTokenize ==
    /\ C7_FoldThenSplit
    /\ rx_last.called /\ Blank(Fold(rx_patterns, rx_last.text)) => rx_last.out = <<>>
    /\ rx_last.called /\ Blank(rx_last.text) /\ Inert(rx_patterns) => rx_last.out = <<>>

\* C7's case: a rule has rewritten the text and the split has cut it in two
C7_Witness ==
    /\ rx_last.called
    /\ Len(rx_patterns) = 2
    /\ Fold(rx_patterns, rx_last.text) # rx_last.text
    /\ Len(rx_last.out) = 2

\* C7's other case: a blank, non-empty text under rules that rewrite it
C7_WitnessBlank ==
    /\ rx_last.called
    /\ rx_last.text # <<>> /\ Blank(rx_last.text)
    /\ rx_patterns # <<>> /\ Inert(rx_patterns)
    /\ rx_last.out = <<>>

\* C7 (as stated): the same, with the empty or whitespace-only text yielding
\* the empty sequence for every PatternSet.
C7_AsStated ==
    /\ C7_FoldThenSplit
    /\ rx_last.called /\ Blank(rx_last.text) => rx_last.out = <<>>

(***************************************************************************)
(* The tokenizers WordTokenizer.tokenize hands the text to                 *)
(***************************************************************************)
\* nltk's TreebankWordTokenizer().tokenize on the model's alphabet: the
\* ellipsis rule, the rule that parts a final period from the word before
\* it, the double-dash rule, then the whitespace split
FinalPeriod(text) ==
    {p \in 2..Len(text) :
        /\ text[p] = "."
        /\ text[p - 1] # "."
        /\ \A k \in (p + 1)..Len(text) : IsSpace(text[k])}

PartFinalPeriod(text) ==
    IF FinalPeriod(text) = {} THEN text
    ELSE LET p == CHOOSE q \in FinalPeriod(text) : TRUE
         IN  SubSeq(text, 1, p - 1) \o <<" ", ".", " ">>

TreebankWordTokenizer(text) ==
    LET t1 == SubLit(<<".", ".", ".">>, <<" ", ".", ".", ".", " ">>, text, 1)
        t2 == PartFinalPeriod(t1)
        t3 == SubLit(<<"-", "-">>, <<" ", "-", "-", " ">>, t2, 1)
    IN  split(t3)

\* GreekRegexSentenceTokenizer().tokenize: re.split on a whitespace character
\* that follows a sentence-ending character
RECURSIVE SentencesFrom(_, _, _)
SentencesFrom(text, i, cur) ==
    IF i > Len(text) THEN <<cur>>
    ELSE IF IsSpace(text[i]) /\ i > 1 /\ text[i - 1] = "."
         THEN <<cur>> \o SentencesFrom(text, i + 1, <<>>)
         ELSE SentencesFrom(text, i + 1, Append(cur, text[i]))

GreekRegexSentenceTokenizer(text) == SentencesFrom(text, 1, <<>>)

RECURSIVE Flatten(_)
Flatten(lists) ==
    IF lists = <<>> THEN <<>> ELSE Head(lists) \o Flatten(Tail(lists))

\* BasePunktWordTokenizer.tokenize: the sentences, each through the Treebank
\* tokenizer, the tokens in sentence order
BasePunktWordTokenizerTokenize(text) ==
    LET sents == GreekRegexSentenceTokenizer(text)
    IN  Flatten([k \in 1..Len(sents) |-> TreebankWordTokenizer(sents[k])])

\* araby.tokenize: re.split on runs of word characters, the pieces stripped
\* and the empty ones dropped
IsWordChar(c) == c = "a"

RECURSIVE Strip(_)
Strip(s) ==
    IF s = <<>> THEN s
    ELSE IF IsSpace(Head(s)) THEN Strip(Tail(s))
    ELSE IF IsSpace(s[Len(s)]) THEN Strip(Front(s))
    ELSE s

RECURSIVE ArabyFrom(_, _, _)
ArabyFrom(text, i, cur) ==
    LET piece == IF Strip(cur) = <<>> THEN <<>> ELSE <<Strip(cur)>>
    IN  IF i > Len(text) THEN piece
        ELSE IF cur # <<>> /\ IsWordChar(cur[1]) # IsWordChar(text[i])
             THEN piece \o ArabyFrom(text, i + 1, <<text[i]>>)
             ELSE ArabyFrom(text, i + 1, Append(cur, text[i]))

BaseArabyWordTokenizerTokenize(text) == ArabyFrom(text, 1, <<>>)

\* tokenize_akkadian_words: the whitespace-separated words of the line
tokenize_akkadian_words(line) == split(line)

\* tokenize_akkadian_signs: the signs of a word, parted at each hyphen
RECURSIVE SignsFrom(_, _, _)
SignsFrom(word, i, sign) ==
    LET out == IF sign = <<>> THEN <<>> ELSE <<sign>>
    IN  IF i > Len(word) THEN out
        ELSE IF word[i] = "-"
             THEN out \o SignsFrom(word, i + 1, <<>>)
             ELSE SignsFrom(word, i + 1, Append(sign, word[i]))

tokenize_akkadian_signs(word) == SignsFrom(word, 1, <<>>)

\* The PatternSets of the language packages
Punctuation == {".", "-"}

OldFrenchTokenizerPatterns ==
    << <<Lit(<<"'">>), <<"'", " ">>>>,
       <<Before(Punctuation), <<" ">>>> >>

OldNorseTokenizerPatterns ==
    << <<Lit(<<"'">>), <<"'", " ">>>>,
       <<Before(Punctuation), <<" ">>>> >>

MiddleEnglishTokenizerPatterns ==
    << <<Lit(<<"-">>), <<" ", "-", " ">>>>,
       <<Before({"."}), <<" ">>>>,
       <<After({"."}), <<" ">>>>,
       <<Ws, <<" ">>>> >>

MiddleHighGermanTokenizerPatterns ==
    << <<Lit(<<"-">>), <<" ", "-", " ">>>>,
       <<Before({"."}), <<" ">>>>,
       <<After({"."}), <<" ">>>>,
       <<Ws, <<" ">>>> >>

(***************************************************************************)
(* WordTokenizer                                                           *)
(***************************************************************************)
Dispatchers == {"d1", "d2"}

available_languages ==
    {"akkadian", "arabic", "french", "greek", "latin", "middle_english",
     "middle_french", "middle_high_german", "old_french", "old_norse",
     "sanskrit", "multilingual"}

\* The languages a caller passes: the available ones and one that is not
LanguageInputs == available_languages \cup {"klingon"}

Notices == {"french_defaults_to_old_french", "latin_deprecated", "unassigned"}

\* Two slips of __init__: the assert left out, and a deprecated language
\* raising instead of warning
WordTokenizerNoAssert(lang) ==
    [raised   |-> None,
     language |-> IF lang = "french" THEN "old_french" ELSE lang,
     notice   |-> IF lang = "french" THEN "french_defaults_to_old_french"
                  ELSE IF lang = "latin" THEN "latin_deprecated" ELSE None]

WordTokenizerDeprecationRaises(lang) ==
    IF lang \notin available_languages
    THEN [raised |-> "AssertionError", language |-> lang, notice |-> None]
    ELSE IF lang = "french"
    THEN [raised |-> None, language |-> "old_french",
          notice |-> "french_defaults_to_old_french"]
    ELSE IF lang = "latin"
    THEN [raised |-> "DeprecationWarning", language |-> lang, notice |-> None]
    ELSE [raised |-> None, language |-> lang, notice |-> None]

\* WordTokenizer.__init__(language): the exception it raises, or the
\* self.language it leaves and the warning it logs
WordTokenizer(lang) ==
    IF lang \notin available_languages
    THEN [raised |-> "AssertionError", language |-> lang, notice |-> None]
    ELSE IF lang = "french"
    THEN [raised |-> None, language |-> "old_french",
          notice |-> "french_defaults_to_old_french"]
    ELSE IF lang = "latin"
    THEN [raised |-> None, language |-> lang, notice |-> "latin_deprecated"]
    ELSE [raised |-> None, language |-> lang, notice |-> None]

Taken(branch, strategy, tokens, notice) ==
    [branch |-> branch, strategy |-> strategy, tokens |-> tokens, notice |-> notice]

\* A slip of tokenize: the fallback splitting on whitespace instead of
\* calling the Treebank tokenizer
tokenize_fallback_split(lang, string) ==
    IF lang = "akkadian" THEN
        Taken("akkadian", "akkadian_words", tokenize_akkadian_words(string), None)
    ELSE IF lang = "arabic" THEN
        Taken("arabic", "araby", BaseArabyWordTokenizerTokenize(string), None)
    ELSE IF lang \in {"french", "middle_french", "old_french"} THEN
        Taken(lang, "regex:old_french",
              RegexTokenize(OldFrenchTokenizerPatterns, string), None)
    ELSE IF lang = "greek" THEN
        Taken("greek", "punkt", BasePunktWordTokenizerTokenize(string), None)
    ELSE IF lang = "latin" THEN
        Taken("latin", "treebank", TreebankWordTokenizer(string), None)
    ELSE IF lang = "old_norse" THEN
        Taken("old_norse", "regex:old_norse",
              RegexTokenize(OldNorseTokenizerPatterns, string), None)
    ELSE IF lang = "middle_english" THEN
        Taken("middle_english", "regex:middle_english",
              RegexTokenize(MiddleEnglishTokenizerPatterns, string), None)
    ELSE IF lang = "middle_high_german" THEN
        Taken("middle_high_german", "regex:middle_high_german",
              RegexTokenize(MiddleHighGermanTokenizerPatterns, string), None)
    ELSE
        Taken("else", "default", split(string), "unassigned")

\* WordTokenizer.tokenize(string) on an object whose self.language is lang:
\* the branch of the if/elif chain it takes, the tokenizer of that branch,
\* the tokens returned and the warning logged
tokenize(lang, string) ==
    IF lang = "akkadian" THEN
        Taken("akkadian", "akkadian_words", tokenize_akkadian_words(string), None)
    ELSE IF lang = "arabic" THEN
        Taken("arabic", "araby", BaseArabyWordTokenizerTokenize(string), None)
    ELSE IF lang = "french" THEN
        Taken("french", "regex:old_french",
              RegexTokenize(OldFrenchTokenizerPatterns, string), None)
    ELSE IF lang = "greek" THEN
        Taken("greek", "punkt", BasePunktWordTokenizerTokenize(string), None)
    ELSE IF lang = "latin" THEN
        Taken("latin", "treebank", TreebankWordTokenizer(string), None)
    ELSE IF lang = "old_norse" THEN
        Taken("old_norse", "regex:old_norse",
              RegexTokenize(OldNorseTokenizerPatterns, string), None)
    ELSE IF lang = "middle_english" THEN
        Taken("middle_english", "regex:middle_english",
              RegexTokenize(MiddleEnglishTokenizerPatterns, string), None)
    ELSE IF lang = "middle_french" THEN
        Taken("middle_french", "regex:old_french",
              RegexTokenize(OldFrenchTokenizerPatterns, string), None)
    ELSE IF lang = "middle_high_german" THEN
        Taken("middle_high_german", "regex:middle_high_german",
              RegexTokenize(MiddleHighGermanTokenizerPatterns, string), None)
    ELSE IF lang = "old_french" THEN
        Taken("old_french", "regex:old_french",
              RegexTokenize(OldFrenchTokenizerPatterns, string), None)
    ELSE
        Taken("else", "default", TreebankWordTokenizer(string), "unassigned")

CuneiformMessage == "Language must be written using cuneiform."

\* WordTokenizer.tokenize_sign(word): what it returns
tokenize_sign(lang, word) ==
    IF lang = "akkadian"
    THEN [ret |-> "tokens", tokens |-> tokenize_akkadian_signs(word), str |-> ""]
    ELSE [ret |-> "str", tokens |-> <<>>, str |-> CuneiformMessage]

NoLast ==
    [op |-> "none", d |-> None, lang |-> None, text |-> <<>>,
     outcome |-> None, error |-> None, ret |-> None,
     tokens |-> <<>>, str |-> "", branch |-> None, strategy |-> None,
     notice |-> None]

DispatchInit ==
    /\ live = [d \in Dispatchers |-> FALSE]
    /\ arg = [d \in Dispatchers |-> None]
    /\ language = [d \in Dispatchers |-> None]
    /\ log = {}
    /\ last = NoLast

\* d = WordTokenizer(lang), d not yet bound
New(d, lang) ==
    LET r == WordTokenizer(lang) IN
    /\ ~live[d]
    /\ IF r.raised # None
       THEN /\ UNCHANGED <<live, arg, language, log, regexVars, trainVars>>
            /\ last' = [NoLast EXCEPT !.op = "new", !.d = d, !.lang = lang,
                                      !.outcome = "raised", !.error = r.raised]
       ELSE /\ live' = [live EXCEPT ![d] = TRUE]
            /\ arg' = [arg EXCEPT ![d] = lang]
            /\ language' = [language EXCEPT ![d] = r.language]
            /\ log' = IF r.notice = None THEN log ELSE log \cup {r.notice}
            /\ last' = [NoLast EXCEPT !.op = "new", !.d = d, !.lang = lang,
                                      !.outcome = "returned", !.ret = "object",
                                      !.notice = r.notice]
            /\ UNCHANGED <<regexVars, trainVars>>

\* d.tokenize(string)
Tokenize(d, string) ==
    /\ live[d]
    /\ \E r \in {tokenize(language[d], string)} :
        /\ log' = IF r.notice = None THEN log ELSE log \cup {r.notice}
        /\ last' = [NoLast EXCEPT !.op = "tokenize", !.d = d, !.text = string,
                                  !.outcome = "returned", !.ret = "tokens",
                                  !.tokens = r.tokens, !.branch = r.branch,
                                  !.strategy = r.strategy, !.notice = r.notice]
        /\ UNCHANGED <<live, arg, language, regexVars, trainVars>>

\* A slip of tokenize_sign: self.language rebound where it should be
\* compared
TokenizeSignRebinds(d, word) ==
    /\ live[d]
    /\ \E r \in {tokenize_sign("akkadian", word)} :
        /\ language' = [language EXCEPT ![d] = "akkadian"]
        /\ last' = [NoLast EXCEPT !.op = "tokenize_sign", !.d = d, !.text = word,
                                  !.outcome = "returned", !.ret = r.ret,
                                  !.tokens = r.tokens, !.str = r.str]
        /\ UNCHANGED <<live, arg, log, regexVars, trainVars>>

\* d.tokenize_sign(word)
TokenizeSign(d, word) ==
    /\ live[d]
    /\ \E r \in {tokenize_sign(language[d], word)} :
        /\ last' = [NoLast EXCEPT !.op = "tokenize_sign", !.d = d, !.text = word,
                                  !.outcome = "returned", !.ret = r.ret,
                                  !.tokens = r.tokens, !.str = r.str]
        /\ UNCHANGED <<live, arg, language, log, regexVars, trainVars>>

\* One dispatcher, constructed with any language and called with any text
DispatchNext ==
    \/ \E lang \in LanguageInputs : New("d1", lang)
    \/ \E string \in Texts : Tokenize("d1", string)
    \/ \E word \in Texts : TokenizeSign("d1", word)

\* Two dispatchers, constructed with a deprecated language or with the
\* language the alias stands for
AliasInputs == {"french", "old_french", "latin"}

AliasNext ==
    \/ \E d \in Dispatchers, lang \in AliasInputs : New(d, lang)
    \/ \E d \in Dispatchers, string \in Texts : Tokenize(d, string)
    \/ \E d \in Dispatchers, word \in Texts : TokenizeSign(d, word)

(***************************************************************************)
(* BaseSentenceTokenizerTrainer.  An optional argument is the record       *)
(* [given |-> FALSE, val |-> empty] when it is None.                       *)
(***************************************************************************)
PunctChars == {"!", ";"}

\* PunktLanguageVars.sent_end_chars as nltk defines it
DefaultSentEndChars == <<".", "?", "!">>

AbbrevPool == {"Dr", "dr"}

\* The tokens of a training corpus: a word with its final period, the same
\* word without it, another word
CorpusTokens == {"Dr.", "dr", "a"}

Corpora == SeqsUpTo(CorpusTokens, MaxCorpus)

NoList == [given |-> FALSE, val |-> <<>>]
NoSet  == [given |-> FALSE, val |-> {}]

OptLists == {NoList} \cup {[given |-> TRUE, val |-> l] : l \in SeqsUpTo(PunctChars, MaxPunct)}
OptSets  == {NoSet} \cup {[given |-> TRUE, val |-> S] : S \in SUBSET AbbrevPool}

TrainerOptions ==
    [punctuation : OptLists, strict : BOOLEAN,
     strict_punctuation : OptLists, abbreviations : OptSets]

\* Python's truth value of an optional list: None and [] are false
Truthy(opt) == opt.given /\ opt.val # <<>>

\* The same for the abbreviations, which the model keeps as a set
TruthySet(opt) == opt.given /\ opt.val # {}

PeriodFinal(tok) == tok = "Dr."

\* The type of a token: lower case, without the final period
TypeOf(tok) == IF tok \in {"Dr.", "dr"} THEN "dr" ELSE tok

\* PunktTrainer(text, ...).get_params().abbrev_types: the types seen with
\* a final period and never without one
Discover(text) ==
    {TypeOf(text[i]) : i \in {j \in 1..Len(text) : PeriodFinal(text[j])}}
        \ {TypeOf(text[i]) : i \in {j \in 1..Len(text) : ~PeriodFinal(text[j])}}

Lower(a) == IF a = "Dr" THEN "dr" ELSE a

\* A slip of the injection: the abbreviations added in lower case, as Punkt
\* stores the types it discovers
InjectLowered(abbrev_types, abbreviations) ==
    IF TruthySet(abbreviations)
    THEN abbrev_types \cup {Lower(a) : a \in abbreviations.val}
    ELSE abbrev_types

\* for abbreviation in self.abbreviations:
\*     tokenizer._params.abbrev_types.add(abbreviation)
Inject(abbrev_types, abbreviations) ==
    IF TruthySet(abbreviations)
    THEN abbrev_types \cup abbreviations.val
    ELSE abbrev_types

\* The "Set punctuation" block: the exception it raises, or the value of
\* PunktLanguageVars.sent_end_chars when it is done
SetPunctuation(t, current) ==
    IF Truthy(t.punctuation)
    THEN IF t.strict
         THEN IF t.strict_punctuation.given
              THEN [raised |-> None,
                    chars |-> t.punctuation.val \o t.strict_punctuation.val]
              ELSE [raised |-> "TypeError", chars |-> current]
         ELSE [raised |-> None, chars |-> t.punctuation.val]
    ELSE [raised |-> None, chars |-> current]

NoTrain ==
    [called |-> FALSE, text |-> <<>>, outcome |-> None, error |-> None,
     chars |-> <<>>, discovered |-> {}, abbrev_types |-> {}]

TrainInit ==
    /\ sent_end_chars = DefaultSentEndChars
    /\ trainer = [punctuation |-> NoList, strict |-> FALSE,
                  strict_punctuation |-> NoList, abbreviations |-> NoSet]
    /\ tr_last = NoTrain

\* BaseSentenceTokenizerTrainer(language, punctuation, strict,
\*                              strict_punctuation, abbreviations)
BaseSentenceTokenizerTrainer(options) ==
    /\ trainer' = options
    /\ tr_last' = NoTrain
    /\ UNCHANGED <<sent_end_chars, dispatchVars, regexVars>>

\* trainer.train_sentence_tokenizer(text)
train_sentence_tokenizer(text) ==
    LET p == SetPunctuation(trainer, sent_end_chars) IN
    /\ UNCHANGED <<dispatchVars, regexVars>>
    /\ IF p.raised # None
       THEN /\ tr_last' = [NoTrain EXCEPT !.called = TRUE, !.text = text,
                                          !.outcome = "raised", !.error = p.raised]
            /\ UNCHANGED <<sent_end_chars, trainer>>
       ELSE /\ sent_end_chars' = p.chars
            /\ tr_last' = [called |-> TRUE, text |-> text, outcome |-> "returned",
                           error |-> None, chars |-> p.chars,
                           discovered |-> Discover(text),
                           abbrev_types |-> Inject(Discover(text), trainer.abbreviations)]
            /\ UNCHANGED trainer

\* Trainers of every option, trained on any corpus
TrainNext ==
    \/ \E options \in TrainerOptions : BaseSentenceTokenizerTrainer(options)
    \/ \E text \in Corpora : train_sentence_tokenizer(text)

\* Trainers of every abbreviations option, with one punctuation setting for
\* each path through the "Set punctuation" block
AbbrevTrainerOptions ==
    [punctuation : {NoList, [given |-> TRUE, val |-> <<"!">>]},
     strict : BOOLEAN,
     strict_punctuation : {NoList, [given |-> TRUE, val |-> <<";">>]},
     abbreviations : OptSets]

AbbrevNext ==
    \/ \E options \in AbbrevTrainerOptions : BaseSentenceTokenizerTrainer(options)
    \/ \E text \in Corpora : train_sentence_tokenizer(text)

(***************************************************************************)
(* Specifications: the word tokenizer, the regex tokenizer, the trainer    *)
(***************************************************************************)
RegexIdle == rx_patterns = <<>> /\ rx_last = NoCall

Init == DispatchInit /\ RegexIdle /\ TrainInit

Next == DispatchNext

Spec == Init /\ [][Next]_vars

SpecAlias == Init /\ [][AliasNext]_vars

InitRegex == DispatchInit /\ RegexInit /\ TrainInit

NextRegex == RegexNext

SpecRegex == InitRegex /\ [][NextRegex]_vars

InitTrain == DispatchInit /\ RegexIdle /\ TrainInit

NextTrain == TrainNext

SpecTrain == InitTrain /\ [][NextTrain]_vars

SpecAbbrev == InitTrain /\ [][AbbrevNext]_vars

(***************************************************************************)
(* Claims about WordTokenizer                                              *)
(***************************************************************************)
\* C1: constructing the dispatcher with a language that is not in the
\* supported set fails at construction time and leaves no dispatcher object
\* on which tokenize or tokenize_sign could be called; with a language of
\* the supported set construction succeeds.
C1_Construction ==
    /\ last.op = "new" /\ last.lang \in available_languages =>
           /\ last.outcome = "returned"
           /\ live[last.d]
           /\ arg[last.d] = last.lang
    /\ last.op = "new" /\ last.lang \notin available_languages =>
           /\ last.outcome = "raised"
           /\ last.error = "AssertionError"
           /\ ~live[last.d]
    /\ \A d \in Dispatchers : live[d] => arg[d] \in available_languages
    /\ last.op \in {"tokenize", "tokenize_sign"} =>
           live[last.d] /\ arg[last.d] \in available_languages

\* C1's case: the constructor has been called with "klingon"
C1_Witness ==
    /\ last.op = "new"
    /\ last.lang = "klingon"
    /\ last.outcome = "raised"
    /\ \A d \in Dispatchers : ~live[d]

\* C2: on a dispatcher of a language other than akkadian, tokenize_sign
\* ends in a failure and returns no value, in particular no descriptive
\* string; only an akkadian dispatcher returns sign tokens.
C2_SignsFailOffCuneiform ==
    last.op = "tokenize_sign" =>
        IF language[last.d] = "akkadian"
        THEN last.outcome = "returned" /\ last.ret = "tokens"
        ELSE last.outcome = "raised" /\ last.ret = None

StrategyOfLanguage(lang) ==
    CASE lang = "akkadian"                                   -> "akkadian_words"
      [] lang = "arabic"                                     -> "araby"
      [] lang \in {"french", "old_french", "middle_french"}  -> "regex:old_french"
      [] lang = "greek"                                      -> "punkt"
      [] lang = "latin"                                      -> "treebank"
      [] lang = "old_norse"                                  -> "regex:old_norse"
      [] lang = "middle_english"                             -> "regex:middle_english"
      [] lang = "middle_high_german"                         -> "regex:middle_high_german"
      [] lang \in {"sanskrit", "multilingual"}               -> "default"

\* C3: the strategy tokenize uses is one, and a function of the language the
\* dispatcher was constructed with, whatever the text and whatever calls
\* came before; no call changes the bound language.
C3_StrategyByLanguage ==
    /\ [](last.op = "tokenize" => last.strategy = StrategyOfLanguage(arg[last.d]))
    /\ [][\A d \in Dispatchers :
             live[d] => live'[d] /\ language'[d] = language[d] /\ arg'[d] = arg[d]]_vars

\* C3's case: a greek dispatcher has tokenized a text, through the branch
\* of its language
C3_Witness ==
    /\ last.op = "tokenize"
    /\ language[last.d] = "greek"
    /\ arg[last.d] = "greek"
    /\ last.strategy = "punkt"
    /\ last.text = <<"a", ".">>

\* C5: for sanskrit and multilingual, which are supported but have no branch
\* of their own, tokenize does not fail: it logs the "unassigned tokenizer"
\* notice and returns what the default (Treebank) tokenizer returns.
C5_Fallback ==
    /\ last.op = "new" /\ last.lang \in {"sanskrit", "multilingual"} =>
           last.outcome = "returned"
    /\ last.op = "tokenize" /\ arg[last.d] \in {"sanskrit", "multilingual"} =>
           /\ last.outcome = "returned"
           /\ last.tokens = TreebankWordTokenizer(last.text)
           /\ last.notice = "unassigned"
           /\ "unassigned" \in log

\* C5's case: a sanskrit dispatcher has tokenized a word and its period
C5_Witness ==
    /\ last.op = "tokenize"
    /\ arg[last.d] = "sanskrit"
    /\ last.text = <<"a", ".">>
    /\ last.tokens = << <<"a">>, <<".">> >>

\* C6: construction with a deprecated language succeeds and logs a
\* deprecation notice; "french" is bound as "old_french", and a dispatcher
\* constructed with "french" returns for a text the tokens a dispatcher
\* constructed with "old_french" returns for it; a "latin" dispatcher
\* constructs and tokenizes.
C6_Alias ==
    /\ [](/\ last.op = "new" /\ last.lang = "french" =>
                /\ last.outcome = "returned"
                /\ language[last.d] = "old_french"
                /\ "french_defaults_to_old_french" \in log
          /\ last.op = "new" /\ last.lang = "latin" =>
                /\ last.outcome = "returned"
                /\ "latin_deprecated" \in log
          /\ last.op = "tokenize" => last.outcome = "returned")
    /\ [][/\ last.op = "tokenize" /\ last'.op = "tokenize"
          /\ last.text = last'.text
          /\ {arg[last.d], arg'[last'.d]} = {"french", "old_french"}
          => last'.tokens = last.tokens]_vars

\* C6's case: a dispatcher constructed with "french" and one constructed
\* with "old_french" are both in use, and one has cut a text in two
C6_Witness ==
    /\ \E d \in Dispatchers : live[d] /\ arg[d] = "french"
    /\ \E d \in Dispatchers : live[d] /\ arg[d] = "old_french"
    /\ last.op = "tokenize"
    /\ last.text = <<"a", ".">>
    /\ last.tokens = << <<"a">>, <<".">> >>

(***************************************************************************)
(* Claims about BaseSentenceTokenizerTrainer                               *)
(***************************************************************************)
Chars(l) == Range(l)

\* The sentence-ending characters a call's own options ask for
OwnChars(t) ==
    IF Truthy(t.punctuation)
    THEN IF t.strict
         THEN Chars(t.punctuation.val) \cup Chars(t.strict_punctuation.val)
         ELSE Chars(t.punctuation.val)
    ELSE Chars(DefaultSentEndChars)

\* C4: the sentence-ending characters a training call uses are those of its
\* own options (the default set when it gives no punctuation), whatever the
\* calls before it were given.
C4_NoContamination ==
    tr_last.called /\ tr_last.outcome = "returned" =>
        Chars(tr_last.chars) = OwnChars(trainer)

\* C8: the model returned has the abbreviations discovery found and those of
\* the abbreviations option, each as given.
C8_Abbreviations ==
    tr_last.called /\ tr_last.outcome = "returned" =>
        /\ tr_last.discovered = Discover(tr_last.text)
        /\ tr_last.abbrev_types =
              tr_last.discovered \cup
              (IF trainer.abbreviations.given THEN trainer.abbreviations.val ELSE {})

\* C8's case: discovery found "dr" in the corpus and the option adds "Dr"
C8_Witness ==
    /\ tr_last.called /\ tr_last.outcome = "returned"
    /\ tr_last.discovered = {"dr"}
    /\ trainer.abbreviations = [given |-> TRUE, val |-> {"Dr"}]
    /\ tr_last.abbrev_types = {"dr", "Dr"}

\* C9: with strict set and no strict_punctuation, training fails and returns
\* no model, whether or not punctuation is given.
C9_StrictNeedsStrictPunctuation ==
    tr_last.called /\ trainer.strict /\ ~trainer.strict_punctuation.given =>
        tr_last.outcome = "raised"

\* C10: with strict set and strict_punctuation given, discovery runs with the
\* punctuation united with strict_punctuation as sentence-ending characters;
\* with strict unset, it runs with exactly the punctuation given.
C10_StrictUnion ==
    tr_last.called /\ tr_last.outcome = "returned" =>
        /\ trainer.strict /\ trainer.strict_punctuation.given =>
              Chars(tr_last.chars) =
                  (IF Truthy(trainer.punctuation)
                   THEN Chars(trainer.punctuation.val)
                   ELSE Chars(DefaultSentEndChars))
                  \cup Chars(trainer.strict_punctuation.val)
        /\ ~trainer.strict /\ Truthy(trainer.punctuation) =>
              Chars(tr_last.chars) = Chars(trainer.punctuation.val)

====
